---- MODULE Spec2Model ----
(***************************************************************************)
(* Model of GetTable.cpp: caption extraction from recognised text and the  *)
(* check of the table numbering.                                           *)
(*                                                                         *)
(* A std::string is a sequence of bytes (0..255).  The marker word is its  *)
(* UTF-8 encoding, as the compiler stores the regex literal.               *)
(***************************************************************************)
EXTENDS Integers, Sequences, FiniteSets, TLC

VARIABLES outText, text, tables, idx, prevNumber, misordered, out, pc

vars == <<outText, text, tables, idx, prevNumber, misordered, out, pc>>

----------------------------------------------------------------------------
(* Characters *)

Newline == 10
Period == 46
Zero == 48
One == 49
Pipe == 124

\* isspace in the "C" locale: \t \n \v \f \r and the blank
SpaceChars == {9, 10, 11, 12, 13, 32}

\* [\d.] of the pattern
IdChars == (48..57) \cup {Period}

\* '.' of an ECMAScript pattern: everything but the line terminators
IsDot(c) == c \notin {10, 13}

\* the marker word of tablePattern in UTF-8
Marker == <<208, 162, 208, 176, 208, 177, 208, 187, 208, 184, 209, 134, 208, 176>>

----------------------------------------------------------------------------
(* std::string operator<= : bytewise, a proper prefix is smaller *)

RECURSIVE StrCompare(_, _, _)
StrCompare(a, b, k) ==
  IF k > Len(a) /\ k > Len(b) THEN 0
  ELSE IF k > Len(a) THEN -1
  ELSE IF k > Len(b) THEN 1
  ELSE IF a[k] < b[k] THEN -1
  ELSE IF a[k] > b[k] THEN 1
  ELSE StrCompare(a, b, k + 1)

\* a comparison that orders by length first, as a numeric comparison of
\* undotted numbers would
StrLeqByLength(a, b) ==
  Len(a) < Len(b) \/ (Len(a) = Len(b) /\ StrCompare(a, b, 1) <= 0)

StrLeq(a, b) == StrCompare(a, b, 1) <= 0

----------------------------------------------------------------------------
\* The pattern of tablePattern, run by regex_search on one line, in the
\* order the backtracking matcher explores it:
\*   marker, \s+, capture 1 = [\d.]+, and optionally
\*   \s+, a lazy run of '.', \s+, capture 2 = a greedy run of '.'

\* first index >= i whose character is outside cls (Len(s)+1 if none)
RECURSIVE RunEnd(_, _, _)
RunEnd(s, i, cls) ==
  IF i > Len(s) \/ s[i] \notin cls THEN i ELSE RunEnd(s, i + 1, cls)

\* end of a greedy run of '.' starting at i
RECURSIVE DotEnd(_, _)
DotEnd(s, i) ==
  IF i > Len(s) \/ ~IsDot(s[i]) THEN i ELSE DotEnd(s, i + 1)

MarkerAt(s, i) ==
  /\ i + Len(Marker) - 1 <= Len(s)
  /\ \A k \in 1..Len(Marker) : s[i + k - 1] = Marker[k]

\* the mandatory part with \s* in place of \s+
MatchesAtNoSpace(s, i) ==
  /\ MarkerAt(s, i)
  /\ LET k == RunEnd(s, i + Len(Marker), SpaceChars)
     IN  k <= Len(s) /\ s[k] \in IdChars

\* marker, \s+ and one [\d.] match at i: the mandatory part of the pattern
MatchesAt(s, i) ==
  /\ MarkerAt(s, i)
  /\ LET j == i + Len(Marker)
         k == RunEnd(s, j, SpaceChars)
     IN  k > j /\ k <= Len(s) /\ s[k] \in IdChars

\* regex_search: the leftmost start position, 0 when the line has no match
RECURSIVE SearchFrom(_, _)
SearchFrom(s, i) ==
  IF i > Len(s) THEN 0
  ELSE IF MatchesAt(s, i) THEN i
  ELSE SearchFrom(s, i + 1)

\* the lazy run of '.' from p followed by \s : the first whitespace
\* reachable over '.' characters, 0 when there is none
RECURSIVE LazyEnd(_, _)
LazyEnd(s, p) ==
  IF p > Len(s) THEN 0
  ELSE IF s[p] \in SpaceChars THEN p
  ELSE IF IsDot(s[p]) THEN LazyEnd(s, p + 1)
  ELSE 0

\* the optional group of a pattern that captures the title right after
\* the first \s+, without the skipped word
GroupTryNoSkip(s, e, x) ==
  IF x <= e THEN <<0, 0>> ELSE <<x, DotEnd(s, x)>>

\* the optional group after the identifier ending at e-1; x is the end
\* (exclusive) of its first \s+, tried longest first.
\* Result: <<start, end>> of capture 2 (end exclusive), <<0, 0>> unmatched
RECURSIVE GroupTry(_, _, _)
GroupTry(s, e, x) ==
  IF x <= e THEN <<0, 0>>
  ELSE LET p == LazyEnd(s, x)
       IN  IF p # 0
           THEN LET q == RunEnd(s, p, SpaceChars)
                IN  <<q, DotEnd(s, q)>>
           ELSE GroupTry(s, e, x - 1)

\* the smatch of a line: matched, and the spans of captures 1 and 2
Match(s) ==
  LET i == SearchFrom(s, 1)
  IN  IF i = 0
      THEN [matched |-> FALSE, pos |-> 0, numPos |-> 0, numEnd |-> 0,
            titlePos |-> 0, titleEnd |-> 0]
      ELSE LET k == RunEnd(s, i + Len(Marker), SpaceChars)
               e == RunEnd(s, k, IdChars)
               g == GroupTry(s, e, RunEnd(s, e, SpaceChars))
           IN  [matched |-> TRUE, pos |-> i, numPos |-> k, numEnd |-> e,
                titlePos |-> g[1], titleEnd |-> g[2]]

\* match.str(n): the empty string for a capture that did not take part
MatchStr(s, from, to) ==
  IF from = 0 THEN <<>> ELSE SubSeq(s, from, to - 1)

TableInfo(number, title) == [number |-> number, title |-> title]

\* the body of the getline loop for one line
LineTables(line) ==
  LET m == Match(line)
  IN  IF m.matched
      THEN <<TableInfo(MatchStr(line, m.numPos, m.numEnd),
                       MatchStr(line, m.titlePos, m.titleEnd))>>
      ELSE <<>>

\* getline(ss, line): the characters up to the next '\n' (removed from the
\* stream, not stored); fails on an exhausted stream
\* a reader that does not stop at '\n': the whole text is one line
GetLineEndWholeText(ss, i) == Len(ss) + 1

RECURSIVE GetLineEnd(_, _)
GetLineEnd(ss, i) ==
  IF i > Len(ss) \/ ss[i] = Newline THEN i ELSE GetLineEnd(ss, i + 1)

\* the loop with the records inserted at the front
RECURSIVE ExtractLoopFront(_, _)
ExtractLoopFront(ss, acc) ==
  IF ss = <<>> THEN acc
  ELSE LET n == GetLineEnd(ss, 1)
           line == SubSeq(ss, 1, n - 1)
           rest == SubSeq(ss, n + 1, Len(ss))
       IN  ExtractLoopFront(rest, LineTables(line) \o acc)

RECURSIVE ExtractLoop(_, _)
ExtractLoop(ss, acc) ==
  IF ss = <<>> THEN acc
  ELSE LET n == GetLineEnd(ss, 1)
           line == SubSeq(ss, 1, n - 1)
           rest == SubSeq(ss, n + 1, Len(ss))
       IN  ExtractLoop(rest, acc \o LineTables(line))

extractTableInfo(t) == ExtractLoop(t, <<>>)

----------------------------------------------------------------------------
(* trim *)

\* the last index <= n of a non-space character, 0 if none
RECURSIVE LastNonSpace(_, _)
LastNonSpace(s, n) ==
  IF n = 0 \/ s[n] \notin SpaceChars THEN n ELSE LastNonSpace(s, n - 1)

\* trim without its second erase
trimLeading(str) == SubSeq(str, RunEnd(str, 1, SpaceChars), Len(str))

trim(str) ==
  LET a == RunEnd(str, 1, SpaceChars)
      s == SubSeq(str, a, Len(str))
  IN  SubSeq(s, 1, LastNonSpace(s, Len(s)))

----------------------------------------------------------------------------
(* findMisorderedTables *)

\* the loop body of the earlier revisions: only the cursor is reported
ScanBodyCursorOnly(mis, prev, number) ==
  IF StrLeq(number, prev) THEN mis \o <<prev>> ELSE mis

\* the loop body with the two push_back calls exchanged
ScanBodySwapped(mis, prev, number) ==
  IF StrLeq(number, prev) THEN mis \o <<prev, number>> ELSE mis

\* the body of the loop for one record: the new anomaly list
ScanBody(mis, prev, number) ==
  IF StrLeq(number, prev) THEN mis \o <<number, prev>> ELSE mis

\* a cursor that starts as the empty string
InitialCursorEmpty == <<>>

\* the initial value of prevNumber
InitialCursor == <<Zero>>

----------------------------------------------------------------------------
(* main: the substitution of the pipes *)

\* a substitution that stops after the first occurrence
replaceFirst(t, old, new) ==
  [i \in 1..Len(t) |->
     IF t[i] = old /\ \A j \in 1..(i - 1) : t[j] # old THEN new ELSE t[i]]

replace(t, old, new) == [i \in 1..Len(t) |-> IF t[i] = old THEN new ELSE t[i]]

\* what the loops at the end of main write: per table the number and the
\* trimmed title (<<>> gives the "title missing" line), then the anomalies
Report(tbls, mis) ==
  [captions |-> [i \in 1..Len(tbls) |->
                   [number |-> tbls[i].number, title |-> trim(tbls[i].title)]],
   misordered |-> mis]

----------------------------------------------------------------------------
(* Inputs *)

MaxTokens == 4
MaxCoreTokens == 7
MaxLines == 3
MaxRecords == 3

\* the pieces the recognised texts are built from: every text of up to
\* MaxTokens pieces, and every one-line text of up to MaxCoreTokens pieces
\* of the marker, the blank and a digit
Tokens == {Marker, <<32>>, <<Newline>>, <<One>>, <<Period>>, <<Pipe>>, <<97>>}
CoreTokens == {Marker, <<32>>, <<One>>}

RECURSIVE Flatten(_)
Flatten(ts) == IF ts = <<>> THEN <<>> ELSE Head(ts) \o Flatten(Tail(ts))

TokenTexts(toks, n) == {Flatten(ts) : ts \in UNION {[1..k -> toks] : k \in 0..n}}

\* the lines the multi-line texts are built from: an empty line, the marker
\* alone, an identifier alone, a title alone, and captions
LineKinds == {<<>>, Marker, <<49>>, <<97, 32, 98>>,
              Marker \o <<32, 49>>, Marker \o <<32, 50>>,
              Marker \o <<32, 49, 48>>,
              Marker \o <<32, 49, 32, 45, 32, 97, 32, 98>>}

\* every text of up to MaxLines lines, each ended by a newline
LineTexts ==
  {Flatten([i \in 1..Len(ls) |-> ls[i] \o <<Newline>>]) :
     ls \in UNION {[1..k -> LineKinds] : k \in 0..MaxLines}}

Spisok == <<208, 161, 208, 191, 208, 184, 209, 129, 208, 190, 208, 186>>
Parametrov == <<208, 191, 208, 176, 209, 128, 208, 176, 208, 188, 208, 181,
                209, 130, 209, 128, 208, 190, 208, 178>>
Itog == <<208, 152, 209, 130, 208, 190, 208, 179>>

\* caption lines: those of the documented examples, one with a separator
\* word, a tab and a carriage return, one with whitespace after the title
ExampleP1 == Marker \o <<32, 51, 46, 49, 32, 32, 32>> \o Spisok \o <<32>> \o Parametrov
ExampleP2 == Marker \o <<32, 53>>
ExampleP3 == Marker \o <<32, 50, Pipe, 49, 32>> \o Itog
ExampleOneWord == Marker \o <<32, 50, 32>> \o Itog
ExampleDash == Marker \o <<9, 50, 32, 45, 32, 97, 32, 98, 13, Newline>>
ExampleTrailing == Marker \o <<32, 52, 32, 45, 9>> \o Itog \o <<32, 32>>
ExampleP5 == Marker \o <<32, 50, Newline>> \o Marker \o <<32, 49, 48>>

Examples == {ExampleP1, ExampleP2, ExampleP3, ExampleOneWord, ExampleDash,
             ExampleTrailing, ExampleP5}

Texts == TokenTexts(Tokens, MaxTokens) \cup TokenTexts(CoreTokens, MaxCoreTokens)
         \cup LineTexts \cup Examples

\* identifiers for the order check: "0" "." ".5" ".." "1" "2" "10" "1.9"
\* "1.10" "3.1"
Ids == {<<48>>, <<46>>, <<46, 53>>, <<46, 46>>, <<49>>, <<50>>, <<49, 48>>,
        <<49, 46, 57>>, <<49, 46, 49, 48>>, <<51, 46, 49>>}

RecordSeqs == UNION {[1..k -> {TableInfo(n, <<>>) : n \in Ids}] : k \in 0..MaxRecords}

----------------------------------------------------------------------------
(* The program *)

Init ==
  /\ outText \in Texts
  /\ text = outText
  /\ tables = <<>>
  /\ idx = 0
  /\ prevNumber = InitialCursor
  /\ misordered = <<>>
  /\ out = <<>>
  /\ pc = "replace"

\* main: replace(text.begin(), text.end(), '|', '1')
Replace ==
  /\ pc = "replace"
  /\ text' = replace(text, Pipe, One)
  /\ pc' = "extract"
  /\ UNCHANGED <<outText, tables, idx, prevNumber, misordered, out>>

\* main: tables = extractTableInfo(text)
Extract ==
  /\ pc = "extract"
  /\ tables' = extractTableInfo(text)
  /\ pc' = "scan"
  /\ UNCHANGED <<outText, text, idx, prevNumber, misordered, out>>

\* findMisorderedTables: one iteration of the loop
ScanStep ==
  /\ pc = "scan"
  /\ idx < Len(tables)
  /\ idx' = idx + 1
  /\ misordered' = ScanBody(misordered, prevNumber, tables[idx + 1].number)
  /\ prevNumber' = tables[idx + 1].number
  /\ UNCHANGED <<outText, text, tables, out, pc>>

\* findMisorderedTables: the loop is over, return misordered
ScanReturn ==
  /\ pc = "scan"
  /\ idx = Len(tables)
  /\ pc' = "output"
  /\ UNCHANGED <<outText, text, tables, idx, prevNumber, misordered, out>>

\* main: the two output loops
Output ==
  /\ pc = "output"
  /\ out' = Report(tables, misordered)
  /\ pc' = "done"
  /\ UNCHANGED <<outText, text, tables, idx, prevNumber, misordered>>

Next == Replace \/ Extract \/ ScanStep \/ ScanReturn \/ Output

Spec == Init /\ [][Next]_vars

\* findMisorderedTables on its own, over bounded record sequences
InitV ==
  /\ outText = <<>>
  /\ text = <<>>
  /\ tables \in RecordSeqs
  /\ idx = 0
  /\ prevNumber = InitialCursor
  /\ misordered = <<>>
  /\ out = <<>>
  /\ pc = "scan"

NextV == ScanStep \/ ScanReturn

SpecV == InitV /\ [][NextV]_vars

----------------------------------------------------------------------------
(* Properties of findMisorderedTables, checked under SpecV *)

Ident(i) == tables[i].number

\* lexicographic order stated on the characters: a is a prefix of b, or
\* the first character in which they differ is smaller in a
LexLeq(a, b) ==
  \/ Len(a) <= Len(b) /\ \A k \in 1..Len(a) : a[k] = b[k]
  \/ \E k \in 1..Len(a) :
       /\ k <= Len(b)
       /\ a[k] < b[k]
       /\ \A j \in 1..(k - 1) : a[j] = b[j]

\* the cursor the i-th record is compared with in the reference scan
CursorBefore(i) == IF i = 1 THEN <<48>> ELSE Ident(i - 1)

Violation(i) == LexLeq(Ident(i), CursorBefore(i))

\* the anomaly sequence of the reference scan over the first n records
RECURSIVE RefScan(_)
RefScan(n) ==
  IF n = 0 THEN <<>>
  ELSE RefScan(n - 1) \o
       (IF Violation(n) THEN <<Ident(n), CursorBefore(n)>> ELSE <<>>)

Idents == [i \in 1..Len(tables) |-> Ident(i)]

\* C1: after every iteration and at return the anomaly list is the one of
\* the reference scan (cursor "0", current identifier then cursor appended
\* on identifier <= cursor, cursor moved to the current identifier in every
\* case); identifiers "1","1","2" give "1","1" and leave the cursor at "2".
C1_ReferenceScan ==
  /\ misordered = RefScan(idx)
  /\ prevNumber = (IF idx = 0 THEN <<48>> ELSE Ident(idx))
  /\ (pc = "output" /\ Idents = << <<49>>, <<49>>, <<50>> >>)
       => (misordered = << <<49>>, <<49>> >> /\ prevNumber = <<50>>)

C1_Witness ==
  /\ pc = "output"
  /\ Idents = << <<49>>, <<49>>, <<50>> >>
  /\ misordered = << <<49>>, <<49>> >>
  /\ prevNumber = <<50>>

\* C5: a record is flagged exactly when its identifier is character-wise
\* <= its predecessor (a proper prefix counting as smaller), never by
\* numeric value: "2","10" gives "10","2" and "1.9","1.10" gives
\* "1.10","1.9".
C5_Lexicographic ==
  [][/\ idx' = idx + 1 =>
          ((misordered' # misordered) <=> LexLeq(Ident(idx'), prevNumber))
     /\ pc' = "output" =>
          /\ Idents' = << <<50>>, <<49, 48>> >>
               => misordered' = << <<49, 48>>, <<50>> >>
          /\ Idents' = << <<49, 46, 57>>, <<49, 46, 49, 48>> >>
               => misordered' = << <<49, 46, 49, 48>>, <<49, 46, 57>> >>]_vars

C5_Witness ==
  /\ pc = "output"
  /\ Idents = << <<50>>, <<49, 48>> >>
  /\ misordered = << <<49, 48>>, <<50>> >>

\* C6: the first record is compared with the cursor "0" like any other: it
\* is flagged iff its identifier is lexicographically <= "0", the output
\* then begins with that identifier followed by "0"; otherwise the first
\* record contributes nothing.
C6_FirstRecord ==
  idx >= 1 =>
    IF LexLeq(Ident(1), <<48>>)
    THEN /\ Len(misordered) >= 2
         /\ misordered[1] = Ident(1)
         /\ misordered[2] = <<48>>
    ELSE /\ idx = 1 => misordered = <<>>
         /\ Len(misordered) <= 2 * (idx - 1)

C6_Witness ==
  /\ idx >= 1
  /\ Ident(1) = <<46, 53>>
  /\ Len(misordered) >= 2
  /\ misordered[1] = <<46, 53>>
  /\ misordered[2] = <<48>>

\* the invariant of the scan after idx iterations
C9_Pairs ==
  /\ Len(misordered) = 2 * Cardinality({i \in 1..idx : Violation(i)})
  /\ \A k \in 1..(Len(misordered) \div 2) :
       /\ LexLeq(misordered[2 * k - 1], misordered[2 * k])
       /\ \E i \in 1..idx :
            /\ misordered[2 * k - 1] = Ident(i)
            /\ misordered[2 * k] = CursorBefore(i)

\* C9: after every iteration and at return the anomaly list has even
\* length, twice the number of violations so far; in every pair the first
\* entry is <= the second, the first is the identifier of a record and the
\* second is "0" (first record) or the identifier of the record just before
\* it; the input sequence is never changed.
C9_ScanInvariant == [][C9_Pairs /\ C9_Pairs' /\ tables' = tables]_vars

C9_Witness ==
  /\ pc = "scan"
  /\ idx = 2
  /\ Len(tables) = 3
  /\ Len(misordered) = 4
  /\ misordered[2] = <<48>>

----------------------------------------------------------------------------
(* The caption lines of a text, stated on positions *)

\* the positions where a line of t begins
LineStarts(t) == {i \in 1..Len(t) : i = 1 \/ t[i - 1] = 10}

\* the line of t beginning at i, without its newline
LineAt(t, i) ==
  LET e == CHOOSE e \in i..(Len(t) + 1) :
             /\ e = Len(t) + 1 \/ t[e] = 10
             /\ \A j \in i..(e - 1) : t[j] # 10
  IN  SubSeq(t, i, e - 1)

\* at m: the marker word, whitespace, a digit or period
CaptionAt(l, m) ==
  /\ m + 13 <= Len(l)
  /\ SubSeq(l, m, m + 13) = Marker
  /\ \E k \in (m + 15)..Len(l) :
       /\ l[k] \in IdChars
       /\ \A j \in (m + 14)..(k - 1) : l[j] \in SpaceChars

IsCaption(l) == \E m \in 1..Len(l) : CaptionAt(l, m)

CaptionPos(l) ==
  CHOOSE m \in 1..Len(l) : CaptionAt(l, m) /\ \A n \in 1..(m - 1) : ~CaptionAt(l, n)

IdStart(l) ==
  LET m == CaptionPos(l)
  IN  CHOOSE k \in (m + 15)..Len(l) :
        /\ l[k] \in IdChars
        /\ \A j \in (m + 14)..(k - 1) : l[j] \in SpaceChars

\* the position after the identifier token
IdEnd(l) ==
  LET k == IdStart(l)
  IN  CHOOSE e \in (k + 1)..(Len(l) + 1) :
        /\ e = Len(l) + 1 \/ l[e] \notin IdChars
        /\ \A j \in k..(e - 1) : l[j] \in IdChars

CaptionId(l) == SubSeq(l, IdStart(l), IdEnd(l) - 1)

AfterId(l) == SubSeq(l, IdEnd(l), Len(l))

\* the number of whitespace characters x begins with
LeadWs(x) ==
  CHOOSE w \in 0..Len(x) :
    /\ \A j \in 1..w : x[j] \in SpaceChars
    /\ w = Len(x) \/ x[w + 1] \notin SpaceChars

DropLeadWs(x) == SubSeq(x, LeadWs(x) + 1, Len(x))

\* x without the whitespace at its two ends
Trimmed(x) ==
  LET ns == {i \in 1..Len(x) : x[i] \notin SpaceChars}
  IN  IF ns = {} THEN <<>>
      ELSE SubSeq(x, CHOOSE a \in ns : \A b \in ns : a <= b,
                     CHOOSE a \in ns : \A b \in ns : a >= b)

\* x up to its first carriage return
UpToCR(x) ==
  LET cr == {i \in 1..Len(x) : x[i] = 13}
  IN  IF cr = {} THEN x
      ELSE SubSeq(x, 1, (CHOOSE a \in cr : \A b \in cr : a <= b) - 1)

\* x without its first word (x begins with a non-space character)
AfterFirstWord(x) ==
  LET sp == {i \in 1..Len(x) : x[i] \in SpaceChars}
  IN  IF sp = {} THEN <<>>
      ELSE SubSeq(x, CHOOSE a \in sp : \A b \in sp : a <= b, Len(x))

\* x occurs in l as a contiguous part
IsPart(x, l) ==
  \E a \in 1..(Len(l) + 1) :
    a + Len(x) - 1 <= Len(l) /\ SubSeq(l, a, a + Len(x) - 1) = x

CaptionStarts == {i \in LineStarts(text) : IsCaption(LineAt(text, i))}

NumCaptions == Cardinality(CaptionStarts)

\* the n-th line of text that is a caption
NthCaption(n) ==
  LineAt(text, CHOOSE s \in CaptionStarts :
                 Cardinality({x \in CaptionStarts : x < s}) = n - 1)

\* extractTableInfo has just returned
AfterExtract == pc = "scan" /\ idx = 0

\* the identifier is followed by whitespace and then by some text
HasTitleText(l) == LeadWs(AfterId(l)) >= 1 /\ DropLeadWs(AfterId(l)) # <<>>

\* the title the pattern captures on a caption line with title text: what
\* follows the first word after the identifier; a lone word is the title
\* only when two or more whitespace characters precede it
SkippedWordTitle(l) ==
  LET r == DropLeadWs(AfterId(l))
      a == AfterFirstWord(r)
  IN  IF a = <<>>
      THEN IF LeadWs(AfterId(l)) >= 2 THEN r ELSE <<>>
      ELSE Trimmed(UpToCR(DropLeadWs(a)))

----------------------------------------------------------------------------
(* Properties of the extraction, checked under Spec *)

\* C2 as stated: on every caption line with title text the record's trimmed
\* title is everything that follows the identifier; the line of P1 gives
\* "3.1" and the whole title.
C2_TitleIsRestOfLine ==
  pc = "done" =>
    /\ Len(out.captions) = NumCaptions
    /\ \A n \in 1..NumCaptions :
         HasTitleText(NthCaption(n)) =>
           /\ out.captions[n].number = CaptionId(NthCaption(n))
           /\ out.captions[n].title = Trimmed(AfterId(NthCaption(n)))

\* C2 amended: on every caption line with title text there is exactly one
\* record, its identifier is the digit/period token and its trimmed title
\* is what follows the first word after the identifier, up to the end of
\* the line or the first carriage return; a lone word is the title only
\* when two or more whitespace characters separate it from the identifier,
\* otherwise the title is empty.  The line of P1 gives "3.1" and the title
\* without its first word.
C2_TitleSkipsFirstWord ==
  pc = "done" =>
    /\ Len(out.captions) = NumCaptions
    /\ \A n \in 1..NumCaptions :
         HasTitleText(NthCaption(n)) =>
           /\ out.captions[n].number = CaptionId(NthCaption(n))
           /\ out.captions[n].title = SkippedWordTitle(NthCaption(n))
    /\ outText = ExampleP1 =>
         out.captions = <<[number |-> <<51, 46, 49>>, title |-> Parametrov]>>

C2_Witness ==
  /\ pc = "done"
  /\ outText = ExampleP1
  /\ HasTitleText(NthCaption(1))
  /\ out.captions = <<[number |-> <<51, 46, 49>>, title |-> Parametrov]>>

HasPipe(x) == \E i \in 1..Len(x) : x[i] = 124

\* C3 as stated: no record contains a pipe, and extraction applied to the
\* raw recognised text gives the records main works with.
C3_ExtractSubstitutes ==
  pc \notin {"replace", "extract"} =>
    /\ \A n \in 1..Len(tables) : ~HasPipe(tables[n].number) /\ ~HasPipe(tables[n].title)
    /\ tables = extractTableInfo(outText)

\* C3 amended: main replaces every pipe of the whole text by '1' once,
\* before extractTableInfo scans any line; no extracted identifier or title
\* contains a pipe, the identifier token "2|1" is extracted as "211", and
\* the records are those of extractTableInfo applied to the text with the
\* pipes replaced (extractTableInfo itself does not substitute).
C3_PipesReplacedByMain ==
  /\ pc = "replace" => tables = <<>> /\ text = outText
  /\ pc # "replace" =>
       /\ Len(text) = Len(outText)
       /\ \A i \in 1..Len(text) :
            text[i] = (IF outText[i] = 124 THEN 49 ELSE outText[i])
  /\ pc \notin {"replace", "extract"} =>
       /\ \A n \in 1..Len(tables) :
            ~HasPipe(tables[n].number) /\ ~HasPipe(tables[n].title)
       /\ tables = extractTableInfo(text)
       /\ outText = ExampleP3 =>
            Len(tables) = 1 /\ tables[1].number = <<50, 49, 49>>

C3_Witness ==
  /\ pc = "done"
  /\ outText = ExampleP3
  /\ HasPipe(outText)
  /\ tables[1].number = <<50, 49, 49>>

\* C4: the records correspond one to one, in order, to the caption lines:
\* as many records as caption lines, the n-th record carries the identifier
\* of the n-th caption line and a title taken from it; equal identifiers
\* give separate records.
C4_OneRecordPerCaptionLine ==
  AfterExtract =>
    /\ Len(tables) = NumCaptions
    /\ \A n \in 1..NumCaptions :
         /\ tables[n].number = CaptionId(NthCaption(n))
         /\ IsPart(tables[n].title, AfterId(NthCaption(n)))

C4_Witness ==
  /\ AfterExtract
  /\ Len(tables) = 3
  /\ tables[1].number = tables[2].number
  /\ tables[2].number # tables[3].number

\* C7: a record is taken from one line: there is a caption line that holds
\* the marker, the record's identifier and its title, neither field holds a
\* newline, and a marker separated from its identifier by a newline gives
\* no record (there are no more records than caption lines).
C7_NoCrossLineStitching ==
  AfterExtract =>
    /\ Len(tables) <= NumCaptions
    /\ \A n \in 1..Len(tables) :
         /\ \A i \in 1..Len(tables[n].number) : tables[n].number[i] # 10
         /\ \A i \in 1..Len(tables[n].title) : tables[n].title[i] # 10
         /\ \E s \in CaptionStarts :
              /\ tables[n].number = CaptionId(LineAt(text, s))
              /\ IsPart(tables[n].title, AfterId(LineAt(text, s)))

\* a marker whose identifier is on the next line, after a caption whose
\* title would be on the next line
C7_Witness ==
  /\ AfterExtract
  /\ text = Marker \o <<32, 49, 10>> \o Marker \o <<10, 49, 10>>
  /\ tables = <<[number |-> <<49>>, title |-> <<>>]>>

\* C8: a text without a caption line (the empty text included) gives no
\* record and no anomaly, and nothing else happens.
C8_CaptionFreeText ==
  (pc \notin {"replace", "extract"} /\ CaptionStarts = {}) =>
    /\ tables = <<>>
    /\ misordered = <<>>
    /\ pc = "done" => out = [captions |-> <<>>, misordered |-> <<>>]

C8_Witness ==
  /\ pc = "done"
  /\ CaptionStarts = {}
  /\ \E i \in 1..Len(text) : MarkerAt(text, i)
  /\ \E i \in 1..Len(text) : text[i] \in IdChars
  /\ tables = <<>>
  /\ misordered = <<>>

\* C10: on a line made of the marker, whitespace, the identifier, one
\* whitespace character and one word, the record has the identifier and an
\* empty title; whenever one whitespace character separates the identifier
\* from the next word, the title is taken from what follows that word.
C10_SingleWordTitleLost ==
  pc = "done" =>
    \A n \in 1..NumCaptions :
      LET l == NthCaption(n)
          r == DropLeadWs(AfterId(l))
      IN  (LeadWs(AfterId(l)) = 1 /\ r # <<>>) =>
            /\ n <= Len(tables)
            /\ IsPart(tables[n].title, AfterFirstWord(r))
            /\ (CaptionPos(l) = 1 /\ AfterFirstWord(r) = <<>>) =>
                 /\ tables[n].number = CaptionId(l)
                 /\ tables[n].title = <<>>
                 /\ out.captions[n].title = <<>>

C10_Witness ==
  /\ pc = "done"
  /\ outText = ExampleOneWord
  /\ tables = <<[number |-> <<50>>, title |-> <<>>]>>
  /\ out.captions[1].title = <<>>

====
